---- MODULE Spec2Model ----
(***************************************************************************)
(* The dynamic SQL query builder of orm/sql/operations.go: the builder's   *)
(* fields, its configuration calls, Build, Execute and GetOrCreate.        *)
(*                                                                         *)
(* A statement text is kept as the sequence of the pieces the code         *)
(* concatenates (the literal parts of its format strings and the values    *)
(* substituted for %s / %d), every "?" placeholder a piece of its own;     *)
(* Text(pieces) is the Go string.  A Go map is a function on its key set,  *)
(* and every `range` over a map takes its keys in an order chosen anew.    *)
(***************************************************************************)
EXTENDS Integers, Sequences, FiniteSets, TLC

\* ------------------------------------------------------------------ bounds
MaxVals == 3      \* longest value slice handed to Where
MaxRows == 2      \* most rows a result cursor yields
MaxBuilds == 2    \* most calls that run Build on one builder

\* --------------------------------------------------------- operator names
OperatorEqual == "="
OperatorGreater == ">"
OperatorIn == "IN"
OperatorBetween == "BETWEEN"
OperatorLike == "LIKE"
OperatorNotIn == "NOT IN"
OperatorLessThan == "<"
OperatorNotLike == "NOT LIKE"

\* ------------------------------------------------- interface{} values
\* nil, a scalar, or a []interface{} of scalars
Nil == [kind |-> "nil", elems |-> <<>>]
Scalar(s) == [kind |-> "scalar", elems |-> <<s>>]
Slice(ss) == [kind |-> "slice", elems |-> ss]

\* vals... : the elements of a slice, each an interface{} of its own
Elements(v) == [i \in 1..Len(v.elems) |-> Scalar(v.elems[i])]

\* ---------------------------------------------------------------- helpers
RECURSIVE Concat(_)
Concat(ss) == IF ss = <<>> THEN <<>> ELSE Head(ss) \o Concat(Tail(ss))

\* strings.Join on a list of strings, each kept as its pieces
RECURSIVE Join(_, _)
Join(elems, sep) ==
    IF elems = <<>> THEN <<>>
    ELSE IF Len(elems) = 1 THEN Head(elems)
    ELSE Head(elems) \o <<sep>> \o Join(Tail(elems), sep)

Range(seq) == {seq[i] : i \in 1..Len(seq)}
Count(seq, x) == Cardinality({i \in 1..Len(seq) : seq[i] = x})

\* the Go string a piece sequence stands for
RECURSIVE Text(_)
Text(pieces) == IF pieces = <<>> THEN "" ELSE Head(pieces) \o Text(Tail(pieces))

\* the orders in which a `range` may visit the keys of map m
KeyOrders(m) ==
    LET n == Cardinality(DOMAIN m)
    IN  {o \in [1..n -> DOMAIN m] : \A i, j \in 1..n : i # j => o[i] # o[j]}

\* one key order for every map of a list of maps
RECURSIVE IterOrders(_)
IterOrders(maps) ==
    IF maps = <<>> THEN {<<>>}
    ELSE {<<o>> \o rest : o \in KeyOrders(Head(maps)), rest \in IterOrders(Tail(maps))}

\* ------------------------------------------------------------------ state
VARIABLES
    qb,      \* the QueryBuilder's fields
    ret,     \* what the most recent call returned (NoRet after a configuration call)
    prev,    \* the return of the Build call right before the most recent call, if any
    calls    \* Build calls made so far; MaxBuilds once the run has ended

vars == <<qb, ret, prev, calls>>

\* what the connection and its result cursor do during one call: QueryContext fails;
\* Columns fails; Next yields nrows rows; the Scan of row scanErrAt fails (0: none);
\* Err reports an error once Next has returned false; Close fails; ExecContext fails
Smooth ==
    [queryErr |-> FALSE, colsErr |-> FALSE, nrows |-> 0, scanErrAt |-> 0,
     iterErr |-> FALSE, closeErr |-> FALSE, insertErr |-> FALSE]

\* ret and prev: the call (op), whether Build panicked, the text and parameter list
\* of Build, the length of qb.Parameters as the call began, the returned result
\* (isNil: a nil slice or map) and error ("" is nil), the calls made on the connection
\* and its cursor, the statements sent, whether the close error was printed, and
\* the call's inputs: the connection's script and createData
NoRet ==
    [op |-> "none", panicked |-> FALSE, query |-> <<>>, params |-> <<>>, before |-> 0,
     isNil |-> TRUE, results |-> <<>>, err |-> "", log |-> <<>>, sent |-> <<>>,
     printed |-> FALSE, script |-> Smooth, arg |-> <<>>]

\* a model hint: a struct type as reflect reports its fields (PkgPath is "" for an
\* exported field), or NilModel
NilModel == [isNil |-> TRUE, fields |-> <<>>]
StructModel(fields) == [isNil |-> FALSE, fields |-> fields]

\* NewQueryBuilder(table, model): every other field has Go's zero value
NewQueryBuilder(table, model) ==
    [Table |-> table, Columns |-> <<>>, WhereConditions |-> <<>>, WhereOperators |-> <<>>,
     OrderByFields |-> <<>>, LimitCount |-> 0, CursorField |-> "", CursorValue |-> Nil,
     Parameters |-> <<>>, Model |-> model]

Init ==
    /\ qb = NewQueryBuilder("users", NilModel)
    /\ ret = NoRet
    /\ prev = NoRet
    /\ calls = 0

\* ------------------------------------------------------------------ inputs
SliceOf(n) == Slice([i \in 1..n |-> ToString(17 + i)])
Active == Scalar("active")
Thirty == Scalar("30")

\* Where(conditions, operators) with one group of one field
One(field, value, op) ==
    [conditions |-> <<field :> value>>, operators |-> <<field :> op>>]

\* what callers hand to Where: no condition; a slice of every length under IN, NOT IN
\* and BETWEEN; a scalar under a single-value operator, under IN, and under no
\* operator list at all; nil values with and without an override; groups of two
\* fields; an operator list shorter than the condition list
WhereInputs ==
    {[conditions |-> <<>>, operators |-> <<>>]}
    \cup {One("age", SliceOf(n), op) : n \in 0..MaxVals, op \in {OperatorIn, OperatorBetween}}
    \cup {One("age", SliceOf(n), OperatorNotIn) : n \in {0, 2}}
    \cup {One("status", Active, op) : op \in {OperatorGreater, OperatorIn}}
    \cup {[conditions |-> <<[status |-> Active]>>, operators |-> <<>>],
          [conditions |-> <<[status |-> Nil]>>, operators |-> <<>>],
          [conditions |-> <<[status |-> Nil, age |-> Thirty]>>,
           operators |-> <<[status |-> OperatorIn]>>],
          [conditions |-> <<[status |-> Active, age |-> Thirty]>>,
           operators |-> <<[age |-> OperatorGreater]>>],
          [conditions |-> <<[status |-> Active], [age |-> SliceOf(2)]>>,
           operators |-> <<[status |-> OperatorLike]>>],
          [conditions |-> <<[status |-> Nil], [age |-> SliceOf(2)]>>,
           operators |-> <<<<>>, [age |-> OperatorBetween]>>]}

SelectInputs == {<<"id", "name">>}

StringSpec(s) == [kind |-> "string", s |-> s, m |-> <<>>]
MapSpec(m) == [kind |-> "map", s |-> "", m |-> m]
OrderByInputs ==
    {<<>>, <<StringSpec("id ASC"), MapSpec([name |-> "DESC", age |-> "ASC"])>>}

LimitInputs == {0, 10}
CursorFields == {"", "id"}
CursorValues == {Nil, Scalar("5")}

\* ------------------------------------------------- configuration calls
\* GetColumnsFromStruct: the names of the exported fields, in declaration order
GetColumnsFromStruct(model) ==
    LET exported == {i \in 1..Len(model.fields) : model.fields[i].PkgPath = ""}
        Pick(n) == CHOOSE i \in exported : Cardinality({j \in exported : j < i}) = n - 1
    IN  [n \in 1..Cardinality(exported) |-> model.fields[Pick(n)].Name]

SelectCols(q, columns) ==
    IF Len(columns) > 0 THEN [q EXCEPT !.Columns = columns]
    ELSE IF ~q.Model.isNil THEN [q EXCEPT !.Columns = GetColumnsFromStruct(q.Model)]
    ELSE q

\* a Where that adds to the lists instead of replacing them
WhereAdded(q, conditions, operators) ==
    [q EXCEPT !.WhereConditions = @ \o conditions, !.WhereOperators = @ \o operators]

\* Where: both lists are assigned
WhereSet(q, conditions, operators) ==
    [q EXCEPT !.WhereConditions = conditions, !.WhereOperators = operators]

OrderBySet(q, fields) == [q EXCEPT !.OrderByFields = fields]

LimitSet(q, limit) == [q EXCEPT !.LimitCount = limit]

CursorSet(q, field, value) == [q EXCEPT !.CursorField = field, !.CursorValue = value]

\* a configuration call returns the builder itself; a run ends with its
\* MaxBuilds-th Build
Configured(q) ==
    /\ calls < MaxBuilds
    /\ qb' = q
    /\ ret' = NoRet
    /\ prev' = NoRet
    /\ calls' = calls

Select == \E columns \in SelectInputs \cup {<<>>} : Configured(SelectCols(qb, columns))

WhereFrom(inputs) == \E w \in inputs : Configured(WhereSet(qb, w.conditions, w.operators))

Where == WhereFrom(WhereInputs)

OrderBy == \E fields \in OrderByInputs : Configured(OrderBySet(qb, fields))

Limit == \E limit \in LimitInputs : Configured(LimitSet(qb, limit))

Cursor ==
    \E field \in CursorFields, value \in CursorValues : Configured(CursorSet(qb, field, value))

\* ------------------------------------------------------------------ Build
\* the nil check left out: every condition is rendered
IsSkippedNever(value) == FALSE

\* `if value == nil { continue }`
IsSkipped(value) == value = Nil

\* the operator for field of group i: the override when the operator list reaches
\* group i and names the field, equality otherwise
OperatorFor(operators, i, field) ==
    IF Len(operators) >= i /\ field \in DOMAIN operators[i]
    THEN operators[i][field]
    ELSE OperatorEqual

\* placeholders := make([]string, len(vals)), each "?", joined with ", "
Placeholders(n) == Join([i \in 1..n |-> <<"?">>], ", ")

\* a switch whose default case writes the equality operator whatever the override
RenderAsEqual(field, value, operator) ==
    IF operator \in {OperatorIn, OperatorNotIn}
    THEN IF value.kind # "slice"
         THEN [panic |-> TRUE, clause |-> <<>>, params |-> <<>>]
         ELSE [panic |-> FALSE,
               clause |-> <<field, " ", operator, " (">>
                          \o Placeholders(Len(value.elems)) \o <<")">>,
               params |-> Elements(value)]
    ELSE IF operator = OperatorBetween
    THEN IF value.kind # "slice"
         THEN [panic |-> TRUE, clause |-> <<>>, params |-> <<>>]
         ELSE [panic |-> FALSE,
               clause |-> <<field, " ", OperatorBetween, " ", "?", " AND ", "?">>,
               params |-> Elements(value)]
    ELSE IF operator = OperatorLike
    THEN [panic |-> FALSE, clause |-> <<field, " ", OperatorLike, " ", "?">>,
          params |-> <<value>>]
    ELSE [panic |-> FALSE, clause |-> <<field, " ", OperatorEqual, " ", "?">>,
          params |-> <<value>>]

\* the switch on the operator: the clause text and the parameters it appends, or a
\* panic where value.([]interface{}) meets a value that is no slice
RenderCondition(field, value, operator) ==
    IF operator \in {OperatorIn, OperatorNotIn}
    THEN IF value.kind # "slice"
         THEN [panic |-> TRUE, clause |-> <<>>, params |-> <<>>]
         ELSE [panic |-> FALSE,
               clause |-> <<field, " ", operator, " (">>
                          \o Placeholders(Len(value.elems)) \o <<")">>,
               params |-> Elements(value)]
    ELSE IF operator = OperatorBetween
    THEN IF value.kind # "slice"
         THEN [panic |-> TRUE, clause |-> <<>>, params |-> <<>>]
         ELSE [panic |-> FALSE,
               clause |-> <<field, " ", OperatorBetween, " ", "?", " AND ", "?">>,
               params |-> Elements(value)]
    ELSE IF operator = OperatorLike
    THEN [panic |-> FALSE, clause |-> <<field, " ", OperatorLike, " ", "?">>,
          params |-> <<value>>]
    ELSE [panic |-> FALSE, clause |-> <<field, " ", operator, " ", "?">>,
          params |-> <<value>>]

\* the (group, field) pairs in the order the two nested loops visit them
Visits(conditions, ords) ==
    Concat([i \in 1..Len(conditions) |->
              [k \in 1..Len(ords[i]) |-> [i |-> i, field |-> ords[i][k]]]])

\* the nested loops over the condition groups: acc holds whereClauses, qb.Parameters
\* and whether a panic has ended the call
RECURSIVE WhereLoop(_, _, _)
WhereLoop(q, visits, acc) ==
    IF visits = <<>> THEN acc
    ELSE LET v == Head(visits)
             value == q.WhereConditions[v.i][v.field]
         IN  IF IsSkipped(value) THEN WhereLoop(q, Tail(visits), acc)
             ELSE LET r == RenderCondition(v.field, value,
                                           OperatorFor(q.WhereOperators, v.i, v.field))
                  IN  IF r.panic THEN [acc EXCEPT !.panicked = TRUE]
                      ELSE WhereLoop(q, Tail(visits),
                                     [clauses |-> Append(acc.clauses, r.clause),
                                      params |-> acc.params \o r.params,
                                      panicked |-> FALSE])

SelectText(q) == <<"SELECT ">> \o Join([i \in 1..Len(q.Columns) |-> <<q.Columns[i]>>], ", ")
                 \o <<" FROM ", q.Table, " ">>

WhereText(q, clauses) ==
    IF Len(q.WhereConditions) > 0 THEN <<"WHERE ">> \o Join(clauses, " AND ") ELSE <<>>

\* orderByClauses: a string as it is, a map as "field direction" per key
OrderByClauses(fields, oords) ==
    Concat([i \in 1..Len(fields) |->
              IF fields[i].kind = "string" THEN << <<fields[i].s>> >>
              ELSE [k \in 1..Len(oords[i]) |->
                      <<oords[i][k], " ", fields[i].m[oords[i][k]]>>]])

OrderByText(q, oords) ==
    IF Len(q.OrderByFields) > 0
    THEN <<" ORDER BY ">> \o Join(OrderByClauses(q.OrderByFields, oords), ", ")
    ELSE <<>>

\* the cursor condition without its test of the value
HasCursorFieldOnly(q) == q.CursorField # ""

\* `if qb.CursorField != "" && qb.CursorValue != nil`
HasCursor(q) == q.CursorField # "" /\ q.CursorValue # Nil

CursorText(q) == IF HasCursor(q) THEN <<" AND ", q.CursorField, " > ", "?", " ">> ELSE <<>>

CursorParams(q) == IF HasCursor(q) THEN <<q.CursorValue>> ELSE <<>>

LimitText(q) == IF q.LimitCount > 0 THEN <<" LIMIT ", ToString(q.LimitCount)>> ELSE <<>>

\* Build with the key orders its ranges take (ords: condition groups, oords: ordering
\* maps): the text, qb.Parameters as the call leaves it, and whether it panicked
BuildRun(q, ords, oords) ==
    LET w == WhereLoop(q, Visits(q.WhereConditions, ords),
                       [clauses |-> <<>>, params |-> q.Parameters, panicked |-> FALSE])
    IN  IF w.panicked THEN [panicked |-> TRUE, query |-> <<>>, params |-> w.params]
        ELSE [panicked |-> FALSE,
              query |-> SelectText(q) \o WhereText(q, w.clauses) \o OrderByText(q, oords)
                        \o CursorText(q) \o LimitText(q),
              params |-> w.params \o CursorParams(q)]

OrderMaps(q) == [i \in 1..Len(q.OrderByFields) |-> q.OrderByFields[i].m]

\* ------------------------------------------------------ the connection
\* the scripts Execute can tell apart (it sends no INSERT)
ExecScripts ==
    {[Smooth EXCEPT !.queryErr = TRUE]}
    \cup {[Smooth EXCEPT !.colsErr = TRUE, !.closeErr = c] : c \in BOOLEAN}
    \cup {[Smooth EXCEPT !.nrows = k, !.scanErrAt = k, !.closeErr = c] :
            k \in 1..MaxRows, c \in BOOLEAN}
    \cup {[Smooth EXCEPT !.nrows = n, !.iterErr = e, !.closeErr = c] :
            n \in 0..MaxRows, e \in BOOLEAN, c \in BOOLEAN}

\* the scripts for GetOrCreate, which reads at most one row and drops what Close
\* returns: with iterErr the first Next returns false because the iteration failed
GetOrCreateScripts ==
    {[Smooth EXCEPT !.queryErr = TRUE], [Smooth EXCEPT !.colsErr = TRUE],
     [Smooth EXCEPT !.nrows = 1], [Smooth EXCEPT !.nrows = 1, !.scanErrAt = 1]}
    \cup {[Smooth EXCEPT !.iterErr = e, !.insertErr = i] : e \in BOOLEAN, i \in BOOLEAN}

\* the column names the result cursor reports, and row k as Scan delivers it
DbColumns == <<"id", "name">>
DbValue(k, column) == Scalar(column \o ToString(k))

\* rowMap[column] = columnsData[i] for every column
RowMap(columns, k) == [c \in Range(columns) |-> DbValue(k, c)]

ErrQuery == "query execution failed"
ErrColumns == "failed to get columns"
ErrScan == "failed to scan row"
ErrIteration == "row iteration error"
ErrInsert == "failed to insert record"

\* `return nil, fmt.Errorf(...)`
Failed(err, log) == [isNil |-> TRUE, results |-> <<>>, err |-> err, log |-> log]

\* ---------------------------------------------------------------- Execute
\* a failed rows.Scan that hands back the rows read so far
ScanFailedKeepsRows(results, log) ==
    [isNil |-> results = <<>>, results |-> results, err |-> ErrScan, log |-> log]

\* a failed rows.Scan: the rows read so far are dropped
ScanFailed(results, log) == Failed(ErrScan, log)

\* the loop `for rows.Next()` from row k on, and the rows.Err() check after it;
\* a slice that was never appended to is nil
RECURSIVE RowLoop(_, _, _, _, _)
RowLoop(script, columns, k, results, log) ==
    IF k > script.nrows
    THEN IF script.iterErr THEN Failed(ErrIteration, log \o <<"Next", "Err">>)
         ELSE [isNil |-> results = <<>>, results |-> results, err |-> "",
               log |-> log \o <<"Next", "Err">>]
    ELSE IF script.scanErrAt = k THEN ScanFailed(results, log \o <<"Next", "Scan">>)
    ELSE RowLoop(script, columns, k + 1, Append(results, RowMap(columns, k)),
                 log \o <<"Next", "Scan">>)

\* Execute from rows.Columns() to its return statement
Materialize(script) ==
    IF script.colsErr THEN Failed(ErrColumns, <<"QueryContext", "Columns">>)
    ELSE RowLoop(script, DbColumns, 1, <<>>, <<"QueryContext", "Columns">>)

\* rows.Close() called at the end of the success path instead of deferred
CloseOnSuccessOnly(out, script) ==
    [isNil |-> out.isNil, results |-> out.results, err |-> out.err,
     log |-> IF out.err = "" THEN Append(out.log, "Close") ELSE out.log,
     printed |-> out.err = "" /\ script.closeErr]

\* the deferred function: rows.Close() as the call returns, its error printed
DeferredClose(out, script) ==
    [isNil |-> out.isNil, results |-> out.results, err |-> out.err,
     log |-> Append(out.log, "Close"), printed |-> script.closeErr]

\* Execute after Build: the defer is registered once QueryContext has returned a cursor
ExecuteRun(script) ==
    IF script.queryErr
    THEN [isNil |-> TRUE, results |-> <<>>, err |-> ErrQuery, log |-> <<"QueryContext">>,
          printed |-> FALSE]
    ELSE DeferredClose(Materialize(script), script)

Statement(text, params) == [text |-> text, params |-> params]

\* what a call that starts with Build leaves behind: b is Build's outcome, out the
\* rest of the call, sent the statements handed to the connection.  A run ends with
\* its first Execute or GetOrCreate: what they do to the builder, Build does too
Returned(op, b, out, sent, script, arg) ==
    /\ qb' = [qb EXCEPT !.Parameters = b.params]
    /\ ret' = IF b.panicked
              THEN [NoRet EXCEPT !.op = op, !.panicked = TRUE, !.before = Len(qb.Parameters)]
              ELSE [op |-> op, panicked |-> FALSE, query |-> b.query, params |-> b.params,
                    before |-> Len(qb.Parameters), isNil |-> out.isNil,
                    results |-> out.results, err |-> out.err, log |-> out.log,
                    sent |-> sent, printed |-> out.printed, script |-> script,
                    arg |-> arg]
    /\ prev' = IF ret.op = "Build" /\ ~ret.panicked THEN ret ELSE NoRet
    /\ calls' = IF op = "Build" THEN calls + 1 ELSE MaxBuilds

\* Build returns the text and qb.Parameters
BuildOut == [isNil |-> TRUE, results |-> <<>>, err |-> "", log |-> <<>>, printed |-> FALSE]

Build ==
    /\ calls < MaxBuilds
    /\ \E ords \in IterOrders(qb.WhereConditions), oords \in IterOrders(OrderMaps(qb)) :
         Returned("Build", BuildRun(qb, ords, oords), BuildOut, <<>>, Smooth, <<>>)

Execute ==
    /\ calls < MaxBuilds
    /\ \E ords \in IterOrders(qb.WhereConditions), oords \in IterOrders(OrderMaps(qb)) :
         LET b == BuildRun(qb, ords, oords)
         IN  \E script \in ExecScripts :
               Returned("Execute", b, ExecuteRun(script), <<Statement(b.query, b.params)>>,
                        script, <<>>)

\* ------------------------------------------------------------ GetOrCreate
CreateInputs == {[name |-> Scalar("bob")], [name |-> Scalar("bob"), status |-> Active]}

\* BuildInsertQuery with the key order its range takes
BuildInsertQuery(q, data, ord) ==
    Statement(<<"INSERT INTO ", q.Table, " (">>
              \o Join([i \in 1..Len(ord) |-> <<ord[i]>>], ", ") \o <<") VALUES (">>
              \o Placeholders(Len(ord)) \o <<")">>,
              [i \in 1..Len(ord) |-> data[ord[i]]])

\* GetOrCreate after Build; rows.Close() is deferred once QueryContext has returned
GetOrCreateRun(q, createData, ord, script) ==
    LET closed(out) == [out EXCEPT !.log = Append(@, "Close")]
        none == [isNil |-> TRUE, results |-> <<>>, err |-> "", log |-> <<>>,
                 printed |-> FALSE, inserts |-> <<>>]
    IN  IF script.queryErr
        THEN [none EXCEPT !.err = ErrQuery, !.log = <<"QueryContext">>]
        ELSE IF script.colsErr
        THEN closed([none EXCEPT !.err = ErrColumns, !.log = <<"QueryContext", "Columns">>])
        ELSE IF script.nrows >= 1
        THEN IF script.scanErrAt = 1
             THEN closed([none EXCEPT !.err = ErrScan,
                                      !.log = <<"QueryContext", "Columns", "Next", "Scan">>])
             ELSE closed([none EXCEPT !.isNil = FALSE, !.results = <<RowMap(DbColumns, 1)>>,
                                      !.log = <<"QueryContext", "Columns", "Next", "Scan">>])
        ELSE LET ins == BuildInsertQuery(q, createData, ord)
                 log == <<"QueryContext", "Columns", "Next", "ExecContext">>
             IN  IF script.insertErr
                 THEN closed([none EXCEPT !.err = ErrInsert, !.log = log,
                                          !.inserts = <<ins>>])
                 ELSE closed([none EXCEPT !.isNil = FALSE, !.results = <<createData>>,
                                          !.log = log, !.inserts = <<ins>>])

GetOrCreate ==
    /\ calls < MaxBuilds
    /\ \E ords \in IterOrders(qb.WhereConditions), oords \in IterOrders(OrderMaps(qb)) :
         LET b == BuildRun(qb, ords, oords)
         IN  \E script \in GetOrCreateScripts, createData \in CreateInputs :
               \E ord \in KeyOrders(createData) :
                 LET out == GetOrCreateRun(qb, createData, ord, script)
                 IN  Returned("GetOrCreate", b, out,
                              <<Statement(b.query, b.params)>> \o out.inserts,
                              script, createData)

\* ------------------------------------------------------- specifications
\* the conditions the whole-program specification hands to Where
FewWhereInputs ==
    {[conditions |-> <<>>, operators |-> <<>>],
     [conditions |-> <<[status |-> Active]>>, operators |-> <<>>],
     [conditions |-> <<[status |-> Active, age |-> Thirty]>>,
      operators |-> <<[age |-> OperatorGreater]>>]}

WhereFew == WhereFrom(FewWhereInputs)

Next == Select \/ WhereFew \/ OrderBy \/ Limit \/ Cursor \/ Build \/ Execute \/ GetOrCreate

Spec == Init /\ [][Next]_vars

\* the builder alone, under every condition list of WhereInputs
NextBuild == Select \/ Where \/ OrderBy \/ Limit \/ Cursor \/ Build

SpecBuild == Init /\ [][NextBuild]_vars

\* the builder alone, under the operators of the switch and Go's other operators, the
\* orderings and the limits: what callers hand to Where, OrderBy and Limit here
TableWhereInputs ==
    {[conditions |-> <<>>, operators |-> <<>>]}
    \cup {One("age", SliceOf(n), OperatorIn) : n \in 0..MaxVals}
    \cup {One("age", SliceOf(n), op) : n \in {2, MaxVals}, op \in {OperatorNotIn, OperatorBetween}}
    \cup {One("age", Thirty, OperatorLessThan), One("name", Scalar("a%"), OperatorLike),
          One("name", Scalar("a%"), OperatorNotLike), One("status", Active, OperatorIn),
          [conditions |-> <<[status |-> Active]>>, operators |-> <<>>],
          [conditions |-> <<[status |-> Active]>>, operators |-> <<<<>>>>],
          [conditions |-> <<[status |-> Nil]>>, operators |-> <<>>],
          [conditions |-> <<[status |-> Active, age |-> Thirty]>>,
           operators |-> <<[age |-> OperatorGreater]>>],
          [conditions |-> <<[name |-> Scalar("a%")], [age |-> Thirty]>>,
           operators |-> <<[name |-> OperatorLike]>>]}

TableOrderByInputs ==
    {<<>>, <<StringSpec("id ASC")>>, <<MapSpec([name |-> "DESC"]), StringSpec("id ASC")>>}

TableLimitInputs == {-1, 0, 10}

WhereTable == WhereFrom(TableWhereInputs)

OrderByTable == \E fields \in TableOrderByInputs : Configured(OrderBySet(qb, fields))

LimitTable == \E limit \in TableLimitInputs : Configured(LimitSet(qb, limit))

NextTable == Select \/ WhereTable \/ OrderByTable \/ LimitTable \/ Cursor \/ Build

SpecTable == Init /\ [][NextTable]_vars

\* ---------------------------------------------------------------- claims
\* the last call was a Build that returned
Built == ret.op = "Build" /\ ~ret.panicked

\* the parameters the last call appended to qb.Parameters
Appended == SubSeq(ret.params, ret.before + 1, Len(ret.params))

\* the builder as the last call found it: Build changes qb.Parameters only
Entry == [qb EXCEPT !.Parameters = SubSeq(qb.Parameters, 1, ret.before)]

\* the values the placeholders of one rendering stand for, left to right: the
\* elements of an IN / NOT IN list, the two ends of a BETWEEN, the value otherwise
RECURSIVE BoundValues(_, _)
BoundValues(q, visits) ==
    IF visits = <<>> THEN <<>>
    ELSE LET v == Head(visits)
             value == q.WhereConditions[v.i][v.field]
             op == OperatorFor(q.WhereOperators, v.i, v.field)
             here == IF value = Nil THEN <<>>
                     ELSE IF op \in {OperatorIn, OperatorNotIn} THEN Elements(value)
                     ELSE IF op = OperatorBetween
                     THEN SubSeq(Elements(value), 1, 2)
                     ELSE <<value>>
         IN  here \o BoundValues(q, Tail(visits))

\* C1: the parameter list Build returns has one entry per "?" of the returned text,
\* the i-th entry being the value of the i-th placeholder, however many Build calls
\* came before
C1_ParamsMatchPlaceholders ==
    Built =>
        /\ Len(ret.params) = Count(ret.query, "?")
        /\ \E ords \in IterOrders(qb.WhereConditions) :
             ret.params = BoundValues(qb, Visits(qb.WhereConditions, ords))
                          \o CursorParams(qb)

\* C2: a call right after a Build, with no configuration call in between, hands out
\* the text and the parameter list that Build returned: a second Build returns them,
\* Execute and GetOrCreate send them
C2_BuildIdempotent ==
    prev.op = "Build" /\ ~ret.panicked =>
        /\ ret.query = prev.query
        /\ ret.params = prev.params
        /\ ret.op \in {"Execute", "GetOrCreate"} => ret.sent[1].params = prev.params

\* the condition groups without their nil entries
StripNil(q) ==
    [q EXCEPT !.WhereConditions =
        [i \in 1..Len(q.WhereConditions) |->
            [f \in {g \in DOMAIN q.WhereConditions[i] : q.WhereConditions[i][g] # Nil}
                |-> q.WhereConditions[i][f]]]]

\* the fields whose every condition has a nil value
NilOnlyFields(q) ==
    {f \in UNION {DOMAIN q.WhereConditions[i] : i \in 1..Len(q.WhereConditions)} :
        \A i \in 1..Len(q.WhereConditions) :
            f \in DOMAIN q.WhereConditions[i] => q.WhereConditions[i][f] = Nil}

\* C3: a condition whose value is nil adds nothing: Build returns the text and the
\* parameters it returns for the same builder without the nil conditions, no text
\* piece names a field that has nil values only, and no appended parameter is nil,
\* whatever operator the nil condition's field is given
C3_NilConditionContributesNothing ==
    Built =>
        /\ \E ords \in IterOrders(StripNil(Entry).WhereConditions),
              oords \in IterOrders(OrderMaps(Entry)) :
             LET b == BuildRun(StripNil(Entry), ords, oords)
             IN  ~b.panicked /\ b.query = ret.query /\ b.params = ret.params
        /\ NilOnlyFields(qb) \cap Range(ret.query) = {}
        /\ Nil \notin Range(Appended)

\* a Build has returned for a builder with a nil condition under an IN override next
\* to a condition that is rendered
C3_Witness ==
    /\ Built
    /\ qb.WhereConditions = <<[status |-> Nil, age |-> Thirty]>>
    /\ qb.WhereOperators = <<[status |-> OperatorIn]>>
    /\ "age" \in Range(ret.query)
    /\ Appended = <<Thirty>>

\* the non-nil conditions of q under operator op, as (group, field) pairs
ConditionsUnder(q, ops) ==
    {v \in UNION {{[i |-> i, field |-> f] : f \in DOMAIN q.WhereConditions[i]} :
                    i \in 1..Len(q.WhereConditions)} :
        /\ q.WhereConditions[v.i][v.field] # Nil
        /\ OperatorFor(q.WhereOperators, v.i, v.field) \in ops}

\* the text holds "(" with ")" right behind it
HasEmptyList(query) ==
    \E i \in 1..Len(query) - 1 : query[i] = " (" /\ query[i + 1] = ")"

\* C4: Build does not return for an IN or NOT IN condition whose value is an empty
\* sequence, and no text it returns holds an empty list "()"
C4_EmptyInRejected ==
    Built =>
        /\ ~HasEmptyList(ret.query)
        /\ \A v \in ConditionsUnder(qb, {OperatorIn, OperatorNotIn}) :
             qb.WhereConditions[v.i][v.field].elems # <<>>

\* C5: Build does not return for a BETWEEN condition whose value does not have
\* exactly 2 elements: a returned "field BETWEEN ? AND ?" comes with 2 parameters
C5_BetweenNeedsTwoValues ==
    Built =>
        \A v \in ConditionsUnder(qb, {OperatorBetween}) :
            Len(qb.WhereConditions[v.i][v.field].elems) = 2

\* C6: with a nil cursor value set, Build emits no cursor predicate and appends no
\* cursor value: the text is SELECT, WHERE, ORDER BY and LIMIT with nothing in
\* between, and the appended parameters are those of the conditions
C6_NilCursorDisablesPagination ==
    Built /\ qb.CursorValue = Nil =>
        /\ " > " \notin Range(ret.query)
        /\ \E ords \in IterOrders(qb.WhereConditions),
              oords \in IterOrders(OrderMaps(qb)) :
             LET w == WhereLoop(Entry, Visits(qb.WhereConditions, ords),
                                [clauses |-> <<>>, params |-> <<>>, panicked |-> FALSE])
             IN  /\ ret.query = SelectText(qb) \o WhereText(qb, w.clauses)
                                \o OrderByText(qb, oords) \o LimitText(qb)
                 /\ Appended = w.params

\* Cursor(field, v), Build, Cursor(field, nil), Build: the second Build has returned,
\* the first one's cursor value still among the accumulated parameters
C6_Witness ==
    /\ Built
    /\ qb.CursorField = "id" /\ qb.CursorValue = Nil
    /\ ret.before > 0
    /\ ret.params[ret.before] = Scalar("5")

\* every " AND " of the text stands right behind the end of a predicate
AndFollowsPredicate(query) ==
    \A i \in 1..Len(query) : query[i] = " AND " => i > 1 /\ query[i - 1] \in {"?", ")"}

\* C7: with cursor field and value set, the cursor predicate is one more condition of
\* the WHERE list: it stands behind WHERE, directly when it is the only condition
\* and joined by AND otherwise, and every AND has a predicate right before it
C7_CursorIsAndedCondition ==
    Built /\ HasCursor(qb) =>
        /\ "WHERE " \in Range(ret.query)
        /\ AndFollowsPredicate(ret.query)

\* the SELECT of the last GetOrCreate failed at one of its stages
SelectFailed(s) == s.queryErr \/ s.colsErr \/ s.scanErrAt = 1 \/ s.iterErr

\* C8: GetOrCreate sends the builder's SELECT first; a first row is returned as a
\* field map without an INSERT; zero rows give exactly one INSERT built from
\* createData and, when it succeeds, createData as the result; a failed SELECT or
\* INSERT gives an error and a nil map; a failed SELECT is never followed by an INSERT
C8_GetOrCreateContract ==
    ret.op = "GetOrCreate" /\ ~ret.panicked =>
        LET s == ret.script
        IN  /\ ret.sent[1] = Statement(ret.query, ret.params)
            /\ ~SelectFailed(s) /\ s.nrows >= 1 =>
                 ret.err = "" /\ ret.results = <<RowMap(DbColumns, 1)>> /\ Len(ret.sent) = 1
            /\ ~SelectFailed(s) /\ s.nrows = 0 =>
                 /\ Len(ret.sent) = 2
                 /\ \E ord \in KeyOrders(ret.arg) :
                      ret.sent[2] = BuildInsertQuery(qb, ret.arg, ord)
                 /\ ~s.insertErr => ret.err = "" /\ ret.results = <<ret.arg>>
            /\ SelectFailed(s) \/ s.insertErr => ret.err # "" /\ ret.isNil
            /\ SelectFailed(s) => Len(ret.sent) = 1

\* C9: once QueryContext has returned a cursor, Execute closes it exactly once, as
\* its last step, on every exit path; it closes nothing when QueryContext fails;
\* and the result and the error it returns are those of the same run with the
\* other outcome of Close, a close error being printed only
C9_CursorClosedOnEveryPath ==
    ret.op = "Execute" /\ ~ret.panicked =>
        LET s == ret.script
            other == ExecuteRun([s EXCEPT !.closeErr = ~s.closeErr])
        IN  /\ ~s.queryErr => Count(ret.log, "Close") = 1 /\ ret.log[Len(ret.log)] = "Close"
            /\ s.queryErr => "Close" \notin Range(ret.log)
            /\ ret.printed = s.closeErr
            /\ other.isNil = ret.isNil /\ other.results = ret.results /\ other.err = ret.err
            /\ s.closeErr /\ ~s.colsErr /\ s.scanErrAt = 0 /\ ~s.iterErr =>
                 ret.err = "" /\ Len(ret.results) = s.nrows

\* Execute has returned from a failed scan of the second row, with a Close that failed
C9_Witness ==
    /\ ret.op = "Execute" /\ ~ret.panicked
    /\ ret.script.scanErrAt = 2 /\ ret.script.closeErr
    /\ ret.err = ErrScan
    /\ ret.log = <<"QueryContext", "Columns", "Next", "Scan", "Next", "Scan", "Close">>

\* C10: Execute returns a nil result with the error of the failing stage, or the rows
\* with a nil error: one map per row in cursor order, no row at all for zero rows
C10_ResultOrError ==
    ret.op = "Execute" /\ ~ret.panicked =>
        LET s == ret.script
        IN  /\ ret.err # "" => ret.isNil /\ ret.results = <<>>
            /\ s.queryErr => ret.err = ErrQuery
            /\ s.colsErr => ret.err = ErrColumns
            /\ s.scanErrAt > 0 => ret.err = ErrScan
            /\ s.iterErr => ret.err = ErrIteration
            /\ ~(s.queryErr \/ s.colsErr \/ s.scanErrAt > 0 \/ s.iterErr) =>
                 /\ ret.err = ""
                 /\ Len(ret.results) = s.nrows
                 /\ \A k \in 1..s.nrows : ret.results[k] = RowMap(DbColumns, k)

\* Execute has returned from a failed scan of the second row, the first row read
C10_Witness ==
    /\ ret.op = "Execute" /\ ~ret.panicked
    /\ ret.script.scanErrAt = 2 /\ ~ret.script.closeErr
    /\ ret.err = ErrScan /\ ret.isNil
    /\ Count(ret.log, "Scan") = 2

\* what Build may return for a builder configured as q with no accumulated
\* parameters: one outcome for every order its ranges can take
Outcomes(q) ==
    {BuildRun([q EXCEPT !.Parameters = <<>>], ords, oords) :
        ords \in IterOrders(q.WhereConditions), oords \in IterOrders(OrderMaps(q))}

\* C11: Build is deterministic: when a builder with no accumulated parameters has
\* returned a text and a parameter list, every builder of the same configuration and
\* no accumulated parameters returns that text and that list, also when a condition
\* group holds several fields
C11_BuildDeterministic ==
    Built /\ ret.before = 0 =>
        \A b \in Outcomes(qb) :
            ~b.panicked /\ b.query = ret.query /\ b.params = ret.params

\* the parts of the builder state, each the fields one configuration call assigns
Part(q, p) ==
    CASE p = "Columns" -> <<q.Columns>>
      [] p = "Where" -> <<q.WhereConditions, q.WhereOperators>>
      [] p = "OrderBy" -> <<q.OrderByFields>>
      [] p = "Limit" -> <<q.LimitCount>>
      [] p = "Cursor" -> <<q.CursorField, q.CursorValue>>

\* the parts in which builder states q and r differ
Changed(q, r) ==
    {p \in {"Columns", "Where", "OrderBy", "Limit", "Cursor"} : Part(q, p) # Part(r, p)}

\* C12: a configuration call leaves the table, the model hint and the accumulated
\* parameters alone and changes at most one part of the builder state, which then
\* holds exactly what the call was handed (the lists of one Where call and nothing of
\* the lists before it; an ordering list, a limit, a cursor field and value, a column
\* list); a call that runs Build (Build, Execute, GetOrCreate) changes no part at all
C12_CallsChangeOwnPartOnly ==
    [][LET changed == Changed(qb, qb')
       IN  /\ qb'.Table = qb.Table
           /\ qb'.Model = qb.Model
           /\ ret'.op = "none" =>
                /\ qb'.Parameters = qb.Parameters
                /\ Cardinality(changed) <= 1
                /\ "Columns" \in changed => qb'.Columns \in SelectInputs
                /\ "Where" \in changed =>
                     [conditions |-> qb'.WhereConditions,
                      operators |-> qb'.WhereOperators] \in FewWhereInputs
                /\ "OrderBy" \in changed => qb'.OrderByFields \in OrderByInputs
                /\ "Limit" \in changed => qb'.LimitCount \in LimitInputs
                /\ "Cursor" \in changed =>
                     qb'.CursorField \in CursorFields /\ qb'.CursorValue \in CursorValues
           /\ ret'.op # "none" => changed = {}]_vars

\* a Where call has replaced the condition that a Build before it rendered, the
\* parameter of that Build still accumulated and the other parts as they were set
C12_Witness ==
    /\ ret.op = "none"
    /\ qb.Parameters = <<Active>>
    /\ qb.WhereConditions = <<[status |-> Active, age |-> Thirty]>>
    /\ qb.WhereOperators = <<[age |-> OperatorGreater]>>
    /\ qb.LimitCount = 10
    /\ qb.Columns = <<"id", "name">>

\* strings.Join on strings
RECURSIVE JoinText(_, _)
JoinText(strs, sep) ==
    IF strs = <<>> THEN ""
    ELSE IF Len(strs) = 1 THEN Head(strs)
    ELSE Head(strs) \o sep \o JoinText(Tail(strs), sep)

\* the operator table: the fragment of a condition
TableFragment(field, value, op) ==
    CASE op = "IN" ->
           field \o " IN (" \o JoinText([i \in 1..Len(value.elems) |-> "?"], ", ") \o ")"
      [] op = "NOT IN" ->
           field \o " NOT IN (" \o JoinText([i \in 1..Len(value.elems) |-> "?"], ", ") \o ")"
      [] op = "BETWEEN" -> field \o " BETWEEN ? AND ?"
      [] op = "LIKE" -> field \o " LIKE ?"
      [] OTHER -> field \o " " \o op \o " ?"

\* the operator table: the parameters of a condition, the elements of the value under
\* IN, NOT IN and BETWEEN and the value itself otherwise
TableParams(value, op) ==
    IF op \in {"IN", "NOT IN", "BETWEEN"} THEN [i \in 1..Len(value.elems) |-> Scalar(value.elems[i])]
    ELSE <<value>>

\* the operator of a condition: the override of the field's group, "=" without one
TableOperator(q, v) ==
    IF v.i \in DOMAIN q.WhereOperators /\ v.field \in DOMAIN q.WhereOperators[v.i]
    THEN q.WhereOperators[v.i][v.field]
    ELSE "="

\* the visits whose condition has a value
RECURSIVE NonNil(_, _)
NonNil(q, visits) ==
    IF visits = <<>> THEN <<>>
    ELSE IF q.WhereConditions[Head(visits).i][Head(visits).field] = Nil
    THEN NonNil(q, Tail(visits))
    ELSE <<Head(visits)>> \o NonNil(q, Tail(visits))

OrderSpecs(fields, oords) ==
    Concat([i \in 1..Len(fields) |->
              IF fields[i].kind = "string" THEN <<fields[i].s>>
              ELSE [k \in 1..Len(oords[i]) |->
                      oords[i][k] \o " " \o fields[i].m[oords[i][k]]]])

\* the statement text of the clause grammar for builder q: wherePresent tells whether
\* the WHERE clause is there, frags are the rendered predicates, specs the orderings;
\* the cursor predicate is where Build puts it, between ORDER BY and LIMIT
Grammar(q, wherePresent, frags, specs) ==
    "SELECT " \o JoinText(q.Columns, ", ") \o " FROM " \o q.Table \o " "
    \o (IF wherePresent THEN "WHERE " \o JoinText(frags, " AND ") ELSE "")
    \o (IF q.OrderByFields # <<>> THEN " ORDER BY " \o JoinText(specs, ", ") ELSE "")
    \o (IF q.CursorField # "" /\ q.CursorValue # Nil
        THEN " AND " \o q.CursorField \o " > ? " ELSE "")
    \o (IF q.LimitCount > 0 THEN " LIMIT " \o ToString(q.LimitCount) ELSE "")

\* the predicates Build rendered when it visited the conditions in the orders ords
Predicates(q, ords) ==
    LET vs == NonNil(q, Visits(q.WhereConditions, ords))
    IN  [k \in 1..Len(vs) |->
           TableFragment(vs[k].field, q.WhereConditions[vs[k].i][vs[k].field],
                         TableOperator(q, vs[k]))]

\* the builder of the example: columns id and name, the condition status = active
\* with no override, the ordering "id ASC", limit 10, no cursor, nothing accumulated
IsExample ==
    /\ qb.Table = "users" /\ qb.Columns = <<"id", "name">>
    /\ qb.WhereConditions = <<[status |-> Active]>> /\ qb.WhereOperators = <<<<>>>>
    /\ qb.OrderByFields = <<StringSpec("id ASC")>> /\ qb.LimitCount = 10
    /\ qb.CursorField = "" /\ ret.before = 0

\* C14: every text Build returns is SELECT <cols> FROM <table>, then WHERE and the
\* predicates joined by AND if and only if at least one predicate is rendered, then
\* ORDER BY and the specs in input order if and only if a spec is set, then LIMIT n
\* as the last clause if and only if the limit is above 0; the builder of the example
\* gives `SELECT id, name FROM users WHERE status = ? ORDER BY id ASC LIMIT 10` with
\* the parameters [active]
C14_ClauseGrammar ==
    Built =>
        /\ \E ords \in IterOrders(qb.WhereConditions), oords \in IterOrders(OrderMaps(qb)) :
             Text(ret.query) =
                 Grammar(qb, Predicates(qb, ords) # <<>>, Predicates(qb, ords),
                         OrderSpecs(qb.OrderByFields, oords))
        /\ IsExample =>
             /\ Text(ret.query)
                    = "SELECT id, name FROM users WHERE status = ? ORDER BY id ASC LIMIT 10"
             /\ ret.params = <<Active>>

====
